---- MODULE Spec2Model ----
(***************************************************************************)
(* Model of crates/collab_ui: the incoming-call notification loop and its  *)
(* accept/decline handler (incoming_call_notification.rs), and the         *)
(* titlebar item with its handlers and its render tree                     *)
(* (collab_titlebar_item.rs).                                              *)
(***************************************************************************)
EXTENDS Integers, Sequences, FiniteSets, TLC

\* ---------------------------------------------------------------- bounds
\* Window ids handed out by add_window (ids are never reused).
MaxWindows == 3
\* Room ids of incoming calls.
MaxCallRoomId == 1
\* Project ids (initial_project_id of a call, remote id of a project,
\* project of a participant's location).
MaxProjectId == 1
\* Room ids of the active call's room.
MaxRoomId == 2
\* Peers that may collaborate on the project or take part in the room.
MaxPeers == 2
\* View ids handed out by add_view for contacts popovers.
MaxViews == 2

\* ------------------------------------------------------------- Option<T>
None == << >>
Some(x) == << x >>
IsSome(o) == o # None
IsNone(o) == o = None
Unwrap(o) == o[1]
Option(S) == {None} \cup {Some(x) : x \in S}

WindowIds == 1..MaxWindows
CallRoomIds == 1..MaxCallRoomId
ProjectIds == 1..MaxProjectId
RoomIds == 1..MaxRoomId
PeerIds == 1..MaxPeers
ReplicaIds == 1..MaxPeers
ViewIds == 1..MaxViews

\* client::incoming_call::IncomingCall, as far as this crate reads it.
IncomingCall == [room_id : CallRoomIds, initial_project_id : Option(ProjectIds)]

\* client::Status: the variants render_connection_status and
\* render_current_user name, and the remaining ones (the `_` arm).
Status ==
    {"SignedOut", "UpgradeRequired", "Authenticating", "Connecting",
     "ConnectionError", "Connected", "ConnectionLost", "Reauthenticating",
     "Reconnecting", "ReconnectionError"}

\* client::Status::is_connected
is_connected(s) == s = "Connected"

\* call::ParticipantLocation
External == [kind |-> "External", project_id |-> None]
InProject(project_id) == [kind |-> "Project", project_id |-> Some(project_id)]
ParticipantLocation == {External} \cup {InProject(p) : p \in ProjectIds}

\* A user as the titlebar reads it: its avatar image, if loaded.
User == [avatar : Option({"image"})]

\* room.remote_participants(): peer id -> participant
RemoteParticipant == [user : User, location : ParticipantLocation]
PartialFunctions(D, R) == UNION {[X -> R] : X \in SUBSET D}
Room == [id : RoomIds, remote_participants : PartialFunctions(PeerIds, RemoteParticipant)]

\* project.collaborators(): peer id -> Collaborator { peer_id, replica_id };
\* replica ids are unique within a project.
Collaborators ==
    {c \in PartialFunctions(PeerIds, ReplicaIds) :
        \A p, q \in DOMAIN c : c[p] = c[q] => p = q}

VARIABLES
    \* --- incoming_call_notification.rs
    notification_window,   \* the loop's local Option<window_id>
    windows,               \* open windows: id -> [kind, call]
    next_window_id,        \* gpui's window id counter
    remove_calls,          \* window id -> number of remove_window calls on it
    responses,             \* window id -> what respond_to_call did there
    last_value,            \* the stream value the loop processed last
    \* --- collab_titlebar_item.rs: what the titlebar reads
    workspace_alive,       \* whether self.workspace.upgrade(cx) is Some
    status,                \* workspace.client().status()
    room,                  \* ActiveCall::global(cx).room()
    project,               \* workspace.project(): is_shared, is_remote,
                           \* remote_id, replica_id, collaborators
    current_user,          \* workspace.user_store().current_user()
    following,             \* peers p with workspace.is_following(p)
    \* --- collab_titlebar_item.rs: the titlebar's own state
    contacts_popover,      \* Option<ViewHandle<ContactsPopover>>
    next_view_id,          \* gpui's view id counter
    focused,               \* the view cx.focus was last called on
    frame,                 \* the element tree of the last render, unless the
                           \* titlebar was notified since
    last_op,               \* the last step taken and the calls it made
    trail                  \* the last operations on contacts_popover

callVars == << notification_window, windows, next_window_id, remove_calls,
               responses, last_value >>

envVars == << workspace_alive, status, room, project, current_user, following >>

titlebarVars == << contacts_popover, next_view_id, focused, frame, last_op, trail >>

vars == << callVars, envVars, titlebarVars >>

\* ------------------------------------------------ gpui window operations
\* cx.remove_window(window_id): closes the window if it is open.
RemoveWindow(ws, id) == [w \in (DOMAIN ws) \ {id} |-> ws[w]]

\* cx.add_window(options, build_root_view): opens a window under a fresh id.
AddWindow(ws, id, kind, call) ==
    [w \in (DOMAIN ws) \cup {id} |->
        IF w = id THEN [kind |-> kind, call |-> call] ELSE ws[w]]

CountRemove(rc, id) == [rc EXCEPT ![id] = @ + 1]

Event(name, arg) == [name |-> name, arg |-> arg]

InitCall ==
    /\ notification_window = None
    /\ windows = << >>
    /\ next_window_id = 1
    /\ remove_calls = [w \in WindowIds |-> 0]
    /\ responses = << >>
    /\ last_value = "start"

\* ------------------------------------------------------ init: the loop
\* `if let Some(window_id) = notification_window.take() { remove_window }`:
\* the open windows after the window recorded for the previous value is
\* removed.
WindowsAfterTake_KeepsPrevious(nw, ws) == ws

WindowsAfterTake(nw, ws) ==
    IF IsSome(nw) THEN RemoveWindow(ws, Unwrap(nw)) ELSE ws

RemoveCallsAfterTake(nw, rc) ==
    IF IsSome(nw) THEN CountRemove(rc, Unwrap(nw)) ELSE rc

IncomingCallLoop_WithoutTake(v) ==
    /\ IsSome(v) => next_window_id <= MaxWindows
    /\ LET taken == WindowsAfterTake(notification_window, windows)
       IN IF IsSome(v)
          THEN /\ windows' = AddWindow(taken, next_window_id, "PopUp", Unwrap(v))
               /\ notification_window' = Some(next_window_id)
               /\ next_window_id' = next_window_id + 1
          ELSE /\ windows' = taken
               /\ UNCHANGED << notification_window, next_window_id >>
    /\ remove_calls' = RemoveCallsAfterTake(notification_window, remove_calls)
    /\ last_value' = IF IsSome(v) THEN "call" ELSE "none"
    /\ UNCHANGED << responses, envVars, titlebarVars >>

\* One iteration of `while let Some(incoming_call) = incoming_call.next().await`
\* for the stream value v : Option<IncomingCall>.
IncomingCallLoop(v) ==
    /\ IsSome(v) => next_window_id <= MaxWindows
    /\ LET taken == WindowsAfterTake(notification_window, windows)
       IN IF IsSome(v)
          THEN /\ windows' = AddWindow(taken, next_window_id, "PopUp", Unwrap(v))
               /\ notification_window' = Some(next_window_id)
               /\ next_window_id' = next_window_id + 1
          ELSE /\ windows' = taken
               /\ notification_window' = None
               /\ UNCHANGED next_window_id
    /\ remove_calls' = RemoveCallsAfterTake(notification_window, remove_calls)
    /\ last_value' = IF IsSome(v) THEN "call" ELSE "none"
    /\ UNCHANGED << responses, envVars, titlebarVars >>

\* ------------------------------ IncomingCallNotification::respond_to_call
RespondCalls_AlwaysDeclines(accept, call, decline_ok) ==
    (IF accept THEN << [name |-> "ActiveCall::join", arg |-> Some(call)] >> ELSE << >>)
        \o << [name |-> "UserStore::decline_call", arg |-> None] >>
        \o (IF decline_ok THEN << >> ELSE << [name |-> "log_err", arg |-> None] >>)

\* What the handler itself calls, synchronously, for RespondToCall { accept }:
\* join on accept; otherwise `user_store.decline_call().log_err()`, which
\* logs the error when decline_call returns Err (decline_ok = FALSE).
RespondCalls(accept, call, decline_ok) ==
    IF accept
    THEN << Event("ActiveCall::join", Some(call)) >>
    ELSE IF decline_ok
    THEN << Event("UserStore::decline_call", None) >>
    ELSE << Event("UserStore::decline_call", None), Event("log_err", None) >>

RespondRemovesWindow_OnlyOnDecline(accept) == ~accept

\* The handler's tail, `cx.remove_window(cx.window_id())`, is reached on
\* both branches of `if action.accept`.
RespondRemovesWindow(accept) == TRUE

\* The handler runs in the notification view of window w, so w is open.
respond_to_call(w, accept, decline_ok) ==
    /\ w \in DOMAIN windows
    /\ windows[w].kind = "PopUp"
    /\ LET call == windows[w].call
           r == [accept |-> accept,
                 call |-> call,
                 pc |-> IF accept THEN "join_pending" ELSE "declined",
                 events |-> RespondCalls(accept, call, decline_ok)]
       IN responses' = [x \in (DOMAIN responses) \cup {w} |->
                           IF x = w THEN r ELSE responses[x]]
    /\ IF RespondRemovesWindow(accept)
       THEN /\ windows' = RemoveWindow(windows, w)
            /\ remove_calls' = CountRemove(remove_calls, w)
       ELSE UNCHANGED << windows, remove_calls >>
    /\ UNCHANGED << notification_window, next_window_id, last_value,
                    envVars, titlebarVars >>

TaskAfterJoin_IgnoresError(r, ok) ==
    IF IsSome(r.call.initial_project_id)
    THEN [r EXCEPT !.pc = "remote_pending",
                   !.events = @ \o << Event(IF ok THEN "join_ok" ELSE "join_err", None),
                                      Event("Project::remote",
                                            r.call.initial_project_id) >>]
    ELSE [r EXCEPT !.pc = "done",
                   !.events = @ \o << Event(IF ok THEN "join_ok" ELSE "join_err", None) >>]

\* The spawned task after `join.await?`: on Ok, Project::remote is started
\* when the call has an initial project; on Err the task ends and
\* detach_and_log_err logs the error.
TaskAfterJoin(r, ok) ==
    IF ~ok
    THEN [r EXCEPT !.pc = "failed",
                   !.events = @ \o << Event("join_err", None),
                                      Event("log_err", None) >>]
    ELSE IF IsSome(r.call.initial_project_id)
    THEN [r EXCEPT !.pc = "remote_pending",
                   !.events = @ \o << Event("join_ok", None),
                                      Event("Project::remote",
                                            r.call.initial_project_id) >>]
    ELSE [r EXCEPT !.pc = "done",
                   !.events = @ \o << Event("join_ok", None) >>]

\* The join future of response w resolves.
JoinCompletes(w, ok) ==
    /\ w \in DOMAIN responses
    /\ responses[w].pc = "join_pending"
    /\ responses' = [responses EXCEPT ![w] = TaskAfterJoin(@, ok)]
    /\ UNCHANGED << notification_window, windows, next_window_id,
                    remove_calls, last_value, envVars, titlebarVars >>

\* The spawned task after `Project::remote(..).await?`: on Ok a workspace
\* window is added; on Err the task ends and the error is logged.
TaskAfterRemote(r, ok, id) ==
    IF ok
    THEN [r EXCEPT !.pc = "done",
                   !.events = @ \o << Event("remote_ok", None),
                                      Event("add_window", Some(id)) >>]
    ELSE [r EXCEPT !.pc = "failed",
                   !.events = @ \o << Event("remote_err", None),
                                      Event("log_err", None) >>]

OpensWorkspace(r) ==
    /\ r.events # << >>
    /\ r.events[Len(r.events)].name = "add_window"

\* The Project::remote future of response w resolves.
RemoteCompletes(w, ok) ==
    /\ w \in DOMAIN responses
    /\ responses[w].pc = "remote_pending"
    /\ LET r == TaskAfterRemote(responses[w], ok, next_window_id)
       IN /\ OpensWorkspace(r) => next_window_id <= MaxWindows
          /\ responses' = [responses EXCEPT ![w] = r]
          /\ IF OpensWorkspace(r)
             THEN /\ windows' = AddWindow(windows, next_window_id, "Workspace",
                                         responses[w].call)
                  /\ next_window_id' = next_window_id + 1
             ELSE UNCHANGED << windows, next_window_id >>
    /\ UNCHANGED << notification_window, remove_calls, last_value,
                    envVars, titlebarVars >>

\* ====================================================== titlebar item
Project(is_shared, is_remote, remote_id, collaborators) ==
    [is_shared |-> is_shared, is_remote |-> is_remote, remote_id |-> remote_id,
     replica_id |-> 0, collaborators |-> collaborators]

\* CollabTitlebarItem::new: no popover; what it reads is as the model leaves
\* it before the first change.
InitTitlebarItem ==
    /\ contacts_popover = None
    /\ next_view_id = 1
    /\ focused = None
    /\ frame = None
    /\ last_op = [op |-> "new", calls |-> << >>, before |-> None]
    /\ trail = << >>

InitEnv ==
    /\ workspace_alive = TRUE
    /\ status = "SignedOut"
    /\ room = None
    /\ project = Project(FALSE, FALSE, None, << >>)
    /\ current_user = None
    /\ following = {}

\* ------------------------------------------------------- render tree
\* cx.dispatch_action(..) bound to a click.
Dispatch(action, arg) == [action |-> action, arg |-> arg]

\* render_toggle_contacts_button: the button, styled active while a popover
\* is stored, and the popover overlay as the stack's second child.
render_toggle_contacts_button(popover) ==
    [type |-> "ToggleContactsButton",
     active |-> IsSome(popover),
     on_click |-> Some(Dispatch("ToggleContactsPopover", None)),
     overlay |-> popover]

\* render_share_button
render_share_button ==
    [type |-> "ShareButton",
     label |-> "Share",
     on_click |-> Some(Dispatch("ShareProject", None)),
     tooltip |-> "Share project with call participants"]

\* render_avatar(avatar, replica_id, peer, is_active, ..)
render_avatar(avatar, replica_id, peer, is_active, flw) ==
    LET is_followed == IF IsSome(peer) THEN Unwrap(peer) \in flw ELSE FALSE
    IN [type |-> "Avatar",
        image |-> avatar,
        replica_id |-> replica_id,
        style |-> IF is_active THEN "avatar" ELSE "inactive_avatar",
        border |-> is_followed,
        on_click |-> IF IsSome(peer)
                     THEN Some(Dispatch("ToggleFollow", peer))
                     ELSE None,
        tooltip |-> IF IsNone(peer) THEN None
                    ELSE IF is_followed THEN Some("Unfollow") ELSE Some("Follow")]

SortByReplicaId_Unsorted(cs) == cs

\* collaborators.sort_by_key(|c| c.replica_id): a stable sort of a sequence
\* of Collaborator records, by insertion.
RECURSIVE InsertByKey(_, _)
InsertByKey(sorted, c) ==
    IF sorted = << >> THEN << c >>
    ELSE IF c.replica_id < sorted[Len(sorted)].replica_id
    THEN InsertByKey(SubSeq(sorted, 1, Len(sorted) - 1), c)
             \o << sorted[Len(sorted)] >>
    ELSE sorted \o << c >>

RECURSIVE SortByReplicaId(_)
SortByReplicaId(cs) ==
    IF cs = << >> THEN << >>
    ELSE InsertByKey(SortByReplicaId(SubSeq(cs, 1, Len(cs) - 1)), cs[Len(cs)])

\* project.collaborators().values().cloned().collect(), the map iterated in
\* the order `order` (a sequence of its keys).
CollectValues(collabs, order) ==
    [i \in 1..Len(order) |-> [peer_id |-> order[i], replica_id |-> collabs[order[i]]]]

\* `project_id.map_or(false, |project_id| participant.location ==
\*  ParticipantLocation::Project { project_id })`
IsActive(project_id, location) ==
    IF IsSome(project_id) THEN location = InProject(Unwrap(project_id)) ELSE FALSE

\* The filter_map closure: the avatar of one collaborator, or None when the
\* peer is no remote participant of the room or the user has no avatar.
CollaboratorAvatar(c, rm, project_id, flw) ==
    IF c.peer_id \notin DOMAIN rm.remote_participants THEN None
    ELSE LET participant == rm.remote_participants[c.peer_id]
         IN IF IsNone(participant.user.avatar) THEN None
            ELSE Some(render_avatar(participant.user.avatar, c.replica_id,
                                    Some(c.peer_id),
                                    IsActive(project_id, participant.location),
                                    flw))

RECURSIVE FilterMapAvatars(_, _, _, _)
FilterMapAvatars(cs, rm, project_id, flw) ==
    IF cs = << >> THEN << >>
    ELSE CollaboratorAvatar(cs[1], rm, project_id, flw)
             \o FilterMapAvatars(Tail(cs), rm, project_id, flw)

\* render_collaborators, with the collaborators map iterated in `order`.
render_collaborators(order) ==
    IF IsSome(room)
    THEN FilterMapAvatars(
             SortByReplicaId(CollectValues(project.collaborators, order)),
             Unwrap(room), project.remote_id, following)
    ELSE << >>

render_current_user_AlwaysPrompts ==
    LET avatar == IF IsSome(current_user) THEN Unwrap(current_user).avatar ELSE None
    IN IF IsSome(avatar)
       THEN Some(render_avatar(avatar, project.replica_id, None, TRUE, following))
       ELSE Some([type |-> "SignInPrompt",
                  label |-> "Sign in",
                  on_click |-> Some(Dispatch("Authenticate", None))])

\* render_current_user: Option<ElementBox>
render_current_user ==
    LET avatar == IF IsSome(current_user) THEN Unwrap(current_user).avatar ELSE None
    IN IF IsSome(avatar)
       THEN Some(render_avatar(avatar, project.replica_id, None, TRUE, following))
       ELSE IF status = "UpgradeRequired"
       THEN None
       ELSE Some([type |-> "SignInPrompt",
                  label |-> "Sign in",
                  on_click |-> Some(Dispatch("Authenticate", None))])

render_connection_status_MissesReauthenticating ==
    IF status \in {"ConnectionError", "ConnectionLost",
                   "Reconnecting", "ReconnectionError"}
    THEN Some([type |-> "OfflineIcon", icon |-> "icons/cloud_slash_12.svg"])
    ELSE IF status = "UpgradeRequired"
    THEN Some([type |-> "OutdatedWarning",
               label |-> "Please update Zed to collaborate"])
    ELSE None

\* render_connection_status: Option<ElementBox>
render_connection_status ==
    IF status \in {"ConnectionError", "ConnectionLost", "Reauthenticating",
                   "Reconnecting", "ReconnectionError"}
    THEN Some([type |-> "OfflineIcon", icon |-> "icons/cloud_slash_12.svg"])
    ELSE IF status = "UpgradeRequired"
    THEN Some([type |-> "OutdatedWarning",
               label |-> "Please update Zed to collaborate"])
    ELSE None

render_call_button_IgnoresRemote ==
    IF is_connected(status)
    THEN IF project.is_shared \/ IsNone(room)
         THEN << render_toggle_contacts_button(contacts_popover) >>
         ELSE << render_share_button >>
    ELSE << >>

\* The first child of the titlebar's row: the contacts toggle, the Share
\* button, or nothing while the client is not connected.
render_call_button ==
    IF is_connected(status)
    THEN IF project.is_shared \/ project.is_remote \/ IsNone(room)
         THEN << render_toggle_contacts_button(contacts_popover) >>
         ELSE << render_share_button >>
    ELSE << >>

\* <CollabTitlebarItem as View>::render
render(order) ==
    IF ~workspace_alive
    THEN [type |-> "Empty", children |-> << >>]
    ELSE [type |-> "Flex",
          children |-> render_call_button
                           \o render_collaborators(order)
                           \o render_current_user
                           \o render_connection_status]

\* The iteration orders a HashMap with these keys can have.
Orders(keys) ==
    {o \in [1..Cardinality(keys) -> keys] : \A i, j \in DOMAIN o : o[i] = o[j] => i = j}

\* The framework calls render; the result is the current frame.
Render ==
    /\ \E order \in Orders(DOMAIN project.collaborators) :
           frame' = Some(render(order))
    /\ last_op' = [op |-> "render", calls |-> << >>, before |-> contacts_popover]
    /\ UNCHANGED << callVars, envVars, contacts_popover, next_view_id, focused, trail >>

\* ---------------------------------------------------------- handlers
\* The two most recent operations on contacts_popover.
Remember(tr, entry) ==
    IF Len(tr) < 2 THEN tr \o << entry >> ELSE << tr[2], entry >>

PopoverAfterToggle_KeepsOpen(popover, alive, view) ==
    IF IsSome(popover) THEN popover
    ELSE IF alive THEN Some(view) ELSE None

\* `match self.contacts_popover.take()`: the popover stored when the handler
\* returns; `view` is the view add_view would create.
PopoverAfterToggle(popover, alive, view) ==
    IF IsSome(popover) THEN None
    ELSE IF alive THEN Some(view) ELSE None

\* CollabTitlebarItem::toggle_contacts_popover
toggle_contacts_popover ==
    /\ (IsNone(contacts_popover) /\ workspace_alive) => next_view_id <= MaxViews
    /\ contacts_popover' =
           PopoverAfterToggle(contacts_popover, workspace_alive, next_view_id)
    /\ IF IsNone(contacts_popover) /\ workspace_alive
       THEN /\ next_view_id' = next_view_id + 1
            /\ focused' = Some(next_view_id)
       ELSE UNCHANGED << next_view_id, focused >>
    /\ frame' = None
    /\ last_op' = [op |-> "toggle_contacts_popover", calls |-> << >>,
                   before |-> contacts_popover]
    /\ trail' = Remember(trail, [op |-> "toggle",
                                 before |-> IsSome(contacts_popover),
                                 alive |-> workspace_alive])
    /\ UNCHANGED << callVars, envVars >>

\* The subscription's callback for contacts_popover::Event::Dismissed,
\* emitted by the popover view the titlebar holds.
PopoverAfterDismissed(popover) == None

Dismissed ==
    /\ IsSome(contacts_popover)
    /\ contacts_popover' = PopoverAfterDismissed(contacts_popover)
    /\ frame' = None
    /\ last_op' = [op |-> "dismissed", calls |-> << >>, before |-> contacts_popover]
    /\ trail' = Remember(trail, [op |-> "dismissed",
                                 before |-> IsSome(contacts_popover),
                                 alive |-> workspace_alive])
    /\ UNCHANGED << callVars, envVars, next_view_id, focused >>

ShareCalls_SkipsUpgrade(alive, rm) ==
    IF IsSome(rm)
    THEN << Event("Project::share", Some(Unwrap(rm).id)) >>
    ELSE << >>

\* The calls share_project makes: Project::share(room_id) when the workspace
\* upgrades and the active call has a room.
ShareCalls(alive, rm) ==
    IF alive /\ IsSome(rm)
    THEN << Event("Project::share", Some(Unwrap(rm).id)) >>
    ELSE << >>

\* CollabTitlebarItem::share_project
share_project ==
    /\ last_op' = [op |-> "share_project",
                   calls |-> ShareCalls(workspace_alive, room),
                   before |-> contacts_popover]
    /\ UNCHANGED << callVars, envVars, contacts_popover, next_view_id, focused,
                    frame, trail >>

\* ------------------------------------------- what the titlebar observes
\* An entity the titlebar depends on notifies its observers. The titlebar
\* observes the workspace and the active call only: client, project and user
\* store reach it through the workspace view, which is there to pass the
\* notification on (reaches) only while it has not been dropped.
Changed(reaches) ==
    /\ frame' = IF reaches THEN None ELSE frame
    /\ last_op' = [op |-> "changed", calls |-> << >>, before |-> contacts_popover]
    /\ UNCHANGED << callVars, contacts_popover, next_view_id, focused, trail >>

\* The client's connection status changes; the workspace view is notified.
StatusChanges(s) ==
    /\ s # status
    /\ status' = s
    /\ Changed(workspace_alive)
    /\ UNCHANGED << workspace_alive, room, project, current_user, following >>

\* The active call gets, changes or loses its room, and notifies.
RoomChanges(r) ==
    /\ r # room
    /\ room' = r
    /\ Changed(TRUE)
    /\ UNCHANGED << workspace_alive, status, project, current_user, following >>

\* The project's sharing state changes; the workspace view is notified.
ProjectChanges(is_shared, is_remote) ==
    /\ << is_shared, is_remote >> # << project.is_shared, project.is_remote >>
    /\ project' = [project EXCEPT !.is_shared = is_shared, !.is_remote = is_remote]
    /\ Changed(workspace_alive)
    /\ UNCHANGED << workspace_alive, status, room, current_user, following >>

\* The user signs in or out, or the avatar finishes loading; the workspace
\* view is notified.
UserChanges(u) ==
    /\ u # current_user
    /\ current_user' = u
    /\ Changed(workspace_alive)
    /\ UNCHANGED << workspace_alive, status, room, project, following >>

\* The workspace view is dropped; the weak handle no longer upgrades.
\* Nothing of the titlebar runs then (it observes notifications only), so
\* the last frame stays as it is until the next render.
WorkspaceDropped ==
    /\ workspace_alive
    /\ workspace_alive' = FALSE
    /\ last_op' = [op |-> "dropped", calls |-> << >>, before |-> contacts_popover]
    /\ UNCHANGED << callVars, status, room, project, current_user, following,
                    contacts_popover, next_view_id, focused, frame, trail >>

EmptyRooms == {[id |-> i, remote_participants |-> << >>] : i \in RoomIds}

NextTitlebar ==
    \/ toggle_contacts_popover
    \/ Dismissed
    \/ share_project
    \/ Render
    \/ \E s \in Status : StatusChanges(s)
    \/ \E r \in Option(EmptyRooms) : RoomChanges(r)
    \/ \E is_shared, is_remote \in BOOLEAN : ProjectChanges(is_shared, is_remote)
    \/ \E u \in Option(User) : UserChanges(u)
    \/ WorkspaceDropped

\* Any room, project and followed peers the titlebar may be rendered over.
InitCollaboration ==
    /\ workspace_alive = TRUE
    /\ status = "Connected"
    /\ room \in Option({r \in Room : r.id = 1})
    /\ \E remote_id \in Option(ProjectIds), collabs \in Collaborators :
           project = Project(TRUE, FALSE, remote_id, collabs)
    /\ current_user = None
    /\ following \in SUBSET PeerIds

NextCollab == Render

NextCall ==
    \/ \E v \in Option(IncomingCall) : IncomingCallLoop(v)
    \/ \E w \in WindowIds, accept, decline_ok \in BOOLEAN :
           respond_to_call(w, accept, decline_ok)
    \/ \E w \in WindowIds, ok \in BOOLEAN : JoinCompletes(w, ok)
    \/ \E w \in WindowIds, ok \in BOOLEAN : RemoteCompletes(w, ok)

Init == InitCall /\ InitEnv /\ InitTitlebarItem

SpecCall == Init /\ [][NextCall]_vars

SpecTitlebar == Init /\ [][NextTitlebar]_vars

InitCollab == InitCall /\ InitCollaboration /\ InitTitlebarItem

SpecCollab == InitCollab /\ [][NextCollab]_vars

\* The notification and the titlebar share no state: each is checked under
\* its own specification, and this is their interleaving.
Next == NextCall \/ NextTitlebar

Spec == Init /\ [][Next]_vars

\* ================================================================ claims
NotificationWindows == {w \in DOMAIN windows : windows[w].kind = "PopUp"}
WorkspaceWindows == {w \in DOMAIN windows : windows[w].kind = "Workspace"}

\* The positions in a response's event log of the events named n.
At(ev, n) == {i \in DOMAIN ev : ev[i].name = n}

\* C1: whatever values the incoming-call loop has processed, at most one
\* notification window is open and it is the one the loop recorded for its
\* last value; unless the last value carried a call the loop records no
\* window, so after a value without a call no notification window is open.
C1_AtMostOneNotification ==
    /\ Cardinality(NotificationWindows) <= 1
    /\ \A w \in NotificationWindows : notification_window = Some(w)
    /\ last_value # "call" => IsNone(notification_window) /\ NotificationWindows = {}
    /\ last_value = "call" => IsSome(notification_window)

\* C1 witness: a second call replaced the first call's window, which the
\* loop removed; only the second window is open.
C1_Witness ==
    /\ last_value = "call"
    /\ notification_window = Some(2)
    /\ NotificationWindows = {2}
    /\ remove_calls[1] = 1
    /\ responses = << >>

\* C2: once respond_to_call has run in a notification window, that window
\* is closed and remove_window was called on it, whether the response was
\* accept or decline, and whether the join is still pending, has succeeded
\* or has failed.
C2_RespondRemovesItsWindow ==
    \A w \in DOMAIN responses :
        /\ w \notin DOMAIN windows
        /\ remove_calls[w] >= 1

\* C2 witness: an accepted call whose join has not resolved yet and a
\* declined call, both with their windows closed.
C2_Witness ==
    \E a, d \in DOMAIN responses :
        /\ responses[a].accept /\ responses[a].pc = "join_pending"
        /\ ~responses[d].accept
        /\ a \notin DOMAIN windows /\ d \notin DOMAIN windows

\* C3: an accepted response called ActiveCall::join exactly once, first and
\* with the notification's call, and never UserStore::decline_call; a
\* declined response called UserStore::decline_call exactly once and never
\* ActiveCall::join, Project::remote or add_window.
C3_OneServicePerResponse ==
    \A w \in DOMAIN responses :
        LET r == responses[w]
            ev == r.events
        IN IF r.accept
           THEN /\ At(ev, "ActiveCall::join") = {1}
                /\ ev[1].arg = Some(r.call)
                /\ At(ev, "UserStore::decline_call") = {}
           ELSE /\ Cardinality(At(ev, "UserStore::decline_call")) = 1
                /\ At(ev, "ActiveCall::join") = {}
                /\ At(ev, "Project::remote") = {}
                /\ At(ev, "add_window") = {}

\* C3 witness: one call was declined and another accepted, joined and its
\* project opened in a workspace window.
C3_Witness ==
    \E a, d \in DOMAIN responses :
        /\ responses[a].accept /\ At(responses[a].events, "add_window") # {}
        /\ ~responses[d].accept /\ responses[d].pc = "declined"

\* C5: a response's task adds a workspace window only for a call with an
\* initial_project_id, and only after join succeeded, then Project::remote
\* was started, then Project::remote succeeded; Project::remote is started
\* only after join succeeded and never after join failed; after a failure of
\* either no window is added and the error is logged. Every open workspace
\* window was added by such a task.
C5_WorkspaceOnlyAfterJoinAndRemote ==
    /\ \A w \in DOMAIN responses :
           LET r == responses[w]
               ev == r.events
           IN /\ \A i \in At(ev, "add_window") :
                     /\ IsSome(r.call.initial_project_id)
                     /\ \E a \in At(ev, "join_ok"), b \in At(ev, "Project::remote"),
                           c \in At(ev, "remote_ok") :
                            /\ a < b /\ b < c /\ c < i
                            /\ ev[b].arg = r.call.initial_project_id
              /\ \A b \in At(ev, "Project::remote") :
                     \E a \in At(ev, "join_ok") : a < b
              /\ At(ev, "join_err") # {} => At(ev, "Project::remote") = {}
              /\ At(ev, "join_err") \cup At(ev, "remote_err") # {} =>
                     /\ At(ev, "add_window") = {}
                     /\ At(ev, "log_err") # {}
    /\ \A x \in WorkspaceWindows :
           \E w \in DOMAIN responses :
               \E i \in At(responses[w].events, "add_window") :
                   responses[w].events[i].arg = Some(x)

\* C5 witness: one accepted call ended with a workspace window open, and
\* another accepted call's join failed.
C5_Witness ==
    \E a, f \in DOMAIN responses :
        /\ At(responses[a].events, "add_window") # {}
        /\ WorkspaceWindows # {}
        /\ At(responses[f].events, "join_err") # {}

\* The children of the current frame, and those of one element type.
Children == IF IsSome(frame) THEN Unwrap(frame).children ELSE << >>
OfType(t) == {i \in DOMAIN Children : Children[i].type = t}

\* C4: in a frame rendered over a live workspace, a disconnected client
\* shows neither the contacts toggle nor the Share button; a connected
\* client shows exactly one of them, the Share button exactly when there is
\* a room and the project is neither shared nor remote.
C4_ToggleOrShare ==
    (IsSome(frame) /\ workspace_alive) =>
        LET toggles == OfType("ToggleContactsButton")
            shares == OfType("ShareButton")
        IN IF is_connected(status)
           THEN /\ Cardinality(toggles) + Cardinality(shares) = 1
                /\ shares # {} <=>
                       (IsSome(room) /\ ~project.is_shared /\ ~project.is_remote)
           ELSE toggles = {} /\ shares = {}

\* C4 witness: connected, in a room, with a remote project: the frame shows
\* the contacts toggle and no Share button.
C4_Witness ==
    /\ IsSome(frame) /\ workspace_alive
    /\ is_connected(status) /\ IsSome(room)
    /\ project.is_remote /\ ~project.is_shared
    /\ OfType("ToggleContactsButton") # {}
    /\ OfType("ShareButton") = {}

\* C6: after a toggle the popover is closed if one was open, a newly
\* created and focused one if none was open and the workspace was alive,
\* and still absent if the workspace was dropped; after Dismissed it is
\* closed; and after two successive toggles over a live workspace, with no
\* Dismissed between them, it is open exactly if it was open before them.
C6_ToggleContactsPopover ==
    /\ trail # << >> =>
           LET t == trail[Len(trail)]
           IN /\ (t.op = "toggle" /\ t.before) => IsNone(contacts_popover)
              /\ (t.op = "toggle" /\ ~t.before /\ t.alive) =>
                     /\ contacts_popover = Some(next_view_id - 1)
                     /\ focused = contacts_popover
              /\ (t.op = "toggle" /\ ~t.before /\ ~t.alive) => IsNone(contacts_popover)
              /\ t.op = "dismissed" => IsNone(contacts_popover)
    /\ (/\ Len(trail) = 2
        /\ trail[1].op = "toggle" /\ trail[2].op = "toggle"
        /\ trail[1].alive /\ trail[2].alive)
           => (IsSome(contacts_popover) <=> trail[1].before)

\* C6 witness: an open popover was toggled closed and then toggled open
\* again, over a live workspace.
C6_Witness ==
    /\ Len(trail) = 2
    /\ trail[1].op = "toggle" /\ trail[2].op = "toggle"
    /\ trail[1].before /\ trail[2].alive
    /\ IsSome(contacts_popover)

\* C7: share_project calls Project::share once, with the id of the current
\* room, when the workspace is alive and the call has a room; otherwise it
\* calls nothing; and it leaves contacts_popover as it was.
C7_ShareProject ==
    last_op.op = "share_project" =>
        /\ IF workspace_alive /\ IsSome(room)
           THEN last_op.calls = << Event("Project::share", Some(Unwrap(room).id)) >>
           ELSE last_op.calls = << >>
        /\ contacts_popover = last_op.before

\* C7 witness: share_project ran over a live workspace while the call was in
\* room 2 and a popover was open, and shared the project with room 2.
C7_Witness ==
    /\ last_op.op = "share_project"
    /\ workspace_alive /\ IsSome(room) /\ Unwrap(room).id = 2
    /\ IsSome(contacts_popover)
    /\ Len(last_op.calls) = 1
    /\ last_op.calls[1].arg = Some(2)

\* C9: a frame over a live workspace shows the offline icon exactly for
\* ConnectionError, ConnectionLost, Reauthenticating, Reconnecting and
\* ReconnectionError, the update warning exactly for UpgradeRequired,
\* neither for any other status, and never both, each at most once.
C9_ConnectionStatus ==
    (IsSome(frame) /\ workspace_alive) =>
        LET offline == OfType("OfflineIcon")
            warning == OfType("OutdatedWarning")
        IN /\ offline # {} <=>
                  status \in {"ConnectionError", "ConnectionLost", "Reauthenticating",
                              "Reconnecting", "ReconnectionError"}
           /\ warning # {} <=> status = "UpgradeRequired"
           /\ \A i \in warning : Children[i].label = "Please update Zed to collaborate"
           /\ ~(offline # {} /\ warning # {})
           /\ Cardinality(offline) <= 1 /\ Cardinality(warning) <= 1

\* C9 witness: while reauthenticating the frame shows the offline icon.
C9_Witness ==
    /\ IsSome(frame) /\ workspace_alive
    /\ status = "Reauthenticating"
    /\ OfType("OfflineIcon") # {}

\* The current user's avatar image, if there is a user and it has one.
CurrentAvatar == IF IsSome(current_user) THEN Unwrap(current_user).avatar ELSE None
\* Avatars without a follow click handler.
OwnAvatars == {i \in OfType("Avatar") : IsNone(Children[i].on_click)}

\* C10: a frame over a live workspace shows the current user's avatar, in
\* the active style and with no click handler, exactly when a current user
\* with an avatar exists; otherwise it shows the "Sign in" prompt, which
\* dispatches Authenticate, exactly when the status is not UpgradeRequired;
\* the prompt and the update warning never appear in one frame.
C10_CurrentUser ==
    (IsSome(frame) /\ workspace_alive) =>
        LET prompts == OfType("SignInPrompt")
        IN /\ IF IsSome(CurrentAvatar)
              THEN /\ Cardinality(OwnAvatars) = 1
                   /\ \A i \in OwnAvatars : /\ Children[i].style = "avatar"
                                             /\ Children[i].image = CurrentAvatar
                   /\ prompts = {}
              ELSE /\ OwnAvatars = {}
                   /\ IF status = "UpgradeRequired"
                      THEN prompts = {}
                      ELSE /\ Cardinality(prompts) = 1
                           /\ \A i \in prompts :
                                  /\ Children[i].label = "Sign in"
                                  /\ Children[i].on_click
                                         = Some(Dispatch("Authenticate", None))
           /\ ~(prompts # {} /\ OfType("OutdatedWarning") # {})

\* C10 witness: a signed-in user without an avatar on a client that must be
\* upgraded: the frame shows the warning and no prompt.
C10_Witness ==
    /\ IsSome(frame) /\ workspace_alive
    /\ IsSome(current_user) /\ IsNone(CurrentAvatar)
    /\ status = "UpgradeRequired"
    /\ OfType("OutdatedWarning") # {}
    /\ OfType("SignInPrompt") = {}

\* The collaborator avatars of the current frame, in order: the avatars
\* with a follow click handler.
IsPeerAvatar(e) == e.type = "Avatar" /\ IsSome(e.on_click)
PeerAvatars == SelectSeq(Children, IsPeerAvatar)
PeerOf(e) == Unwrap(Unwrap(e.on_click).arg)

\* The collaborators that take part in the room and whose user has an avatar.
ShownPeers ==
    IF IsNone(room) THEN {}
    ELSE {p \in DOMAIN project.collaborators :
             /\ p \in DOMAIN Unwrap(room).remote_participants
             /\ IsSome(Unwrap(room).remote_participants[p].user.avatar)}

\* C8: a frame has no collaborator avatars without a room; otherwise it has
\* one avatar for exactly the collaborators that are remote participants of
\* the room and have an avatar image, each with its collaborator's replica
\* id, in ascending order of replica id, and in the active style exactly
\* when the project has a remote id and the participant is located in it.
C8_Collaborators ==
    IsSome(frame) =>
        /\ IsNone(room) => PeerAvatars = << >>
        /\ Len(PeerAvatars) = Cardinality(ShownPeers)
        /\ {PeerOf(PeerAvatars[i]) : i \in DOMAIN PeerAvatars} = ShownPeers
        /\ \A i \in DOMAIN PeerAvatars :
               LET a == PeerAvatars[i]
                   participant == Unwrap(room).remote_participants[PeerOf(a)]
               IN /\ a.replica_id = project.collaborators[PeerOf(a)]
                  /\ a.image = participant.user.avatar
                  /\ a.style = "avatar" <=>
                         /\ IsSome(project.remote_id)
                         /\ participant.location = InProject(Unwrap(project.remote_id))
        /\ \A i, j \in DOMAIN PeerAvatars :
               i < j => PeerAvatars[i].replica_id <= PeerAvatars[j].replica_id

\* C8 witness: peer 1 holds replica 2 and peer 2 replica 1, both in the room
\* with avatars, peer 2 in the project and peer 1 elsewhere: the frame shows
\* peer 2's avatar, active, before peer 1's, inactive.
C8_Witness ==
    /\ IsSome(frame) /\ IsSome(room)
    /\ Len(PeerAvatars) = 2
    /\ PeerOf(PeerAvatars[1]) = 2 /\ PeerOf(PeerAvatars[2]) = 1
    /\ PeerAvatars[1].replica_id = 1 /\ PeerAvatars[2].replica_id = 2
    /\ PeerAvatars[1].style = "avatar"
    /\ PeerAvatars[2].style = "inactive_avatar"

\* C11 as stated: no window id is passed to remove_window more than once.
C11_RemovedAtMostOnce ==
    \A w \in WindowIds : remove_calls[w] <= 1

\* C11, amended: a window id is passed to remove_window at most twice, at
\* most once by respond_to_call and at most once by the loop. A second call
\* happens only on a window respond_to_call has closed, when the loop
\* handles the next stream value; until then the loop still records that
\* window and only respond_to_call has removed it; a window nobody responded
\* to is removed at most once.
C11_RemovedOncePerCaller ==
    \A w \in WindowIds :
        /\ remove_calls[w] <= 2
        /\ remove_calls[w] = 2 =>
               /\ w \in DOMAIN responses
               /\ notification_window # Some(w)
        /\ (w \in DOMAIN responses /\ notification_window = Some(w)) =>
               remove_calls[w] = 1
        /\ remove_calls[w] >= 1 => w \notin DOMAIN windows

\* C11 witness: window 1 was declined, which removed it, and the next stream
\* value made the loop call remove_window on it a second time.
C11_Witness ==
    /\ 1 \in DOMAIN responses
    /\ ~responses[1].accept
    /\ remove_calls[1] = 2
    /\ notification_window # Some(1)

\* The popover overlays of the current frame: the overlay children of its
\* contacts toggle buttons.
RenderedOverlays ==
    {Children[i].overlay : i \in OfType("ToggleContactsButton")} \ {None}

\* C12: whenever a frame is rendered over a live workspace while
\* contacts_popover is Some, the frame contains that popover's overlay.
C12_OpenPopoverIsRendered ==
    (IsSome(frame) /\ workspace_alive /\ IsSome(contacts_popover)) =>
        contacts_popover \in RenderedOverlays

====
